---- MODULE Spec2Model ----
(***************************************************************************)
(* A model of the render loop of rl_graphics (crates/rl_graphics/src/lib.rs)*)
(* and of its caller (examples/game/examples/game.rs).                      *)
(*                                                                          *)
(* The program is single threaded: Graphics::new builds the surface         *)
(* configuration, main registers drawables, and Graphics::run hands a       *)
(* closure to the window system's event loop, which calls it once for each  *)
(* event.  One action of the model is one call of the closure, with every   *)
(* effect of that call: the fields it assigns and, in `log`, the calls it   *)
(* makes on the surface, the device, the queue, the drawables and the       *)
(* window, in the order the code makes them.                                *)
(***************************************************************************)
EXTENDS Integers, Sequences, FiniteSets, TLC

\* ------------------------------------------------------------------ bounds

\* Window widths and heights range over 0..MaxDim (0 is a minimised window).
MaxDim == 2
\* At most this many drawables are registered before the loop starts.
MaxDrawables == 2
\* The presentable images of the surface, handed out in turn by acquire.
NumImages == 2

\* desired_maximum_frame_latency of the configuration
MaxFrameLatency == 2

Dims == 0..MaxDim
DrawableIds == 1..MaxDrawables
None == -1

\* ------------------------------------------------------------------- state

VARIABLES
    state,          \* where the program is: see States
    config,         \* Graphics.config, the Frame Surface Configuration
    surfaceConfig,  \* <<c>>: the configuration last given to surface.configure; <<>>: none yet
    renderables,    \* Graphics.renderables, the registry, in push order
    lastResize,     \* per drawable, <<w, h>> of the last Renderable::resize call; <<>>: none yet
    redrawPending,  \* window.request_redraw() was called and RedrawRequested not delivered since
    frame,          \* the image the last successful get_current_texture returned (0: none yet)
    lastEvent,      \* the event the closure was last called with
    log,            \* the calls made while handling lastEvent, in order
    cubes,          \* the Cubes made by Cube::new: their buffers and index count
    uniformWrites   \* per Cube, the uniform buffer after each of the latest resize
                    \* calls that had the same arguments

vars == <<state, config, surfaceConfig, renderables, lastResize, redrawPending,
          frame, lastEvent, log, cubes, uniformWrites>>

cubeVars == <<cubes, uniformWrites>>

\* Start: main, before Graphics::new.  StartupFailed: Graphics::new failed.
\* Initializing: Graphics built, loop not started.  Running: the event loop
\* calls the closure.  Exiting: target.exit() was called and the event loop has
\* not returned yet.  Exited: EventLoop::run returned.  Aborted: the closure
\* panicked.
States == {"Start", "StartupFailed", "Initializing", "Running", "Exiting", "Exited", "Aborted"}

\* ----------------------------------------------------------------- records

\* One call made by the program.  Fields a call does not use hold None / "".
Op(op, d, f, w, h, clear) ==
    [op |-> op, d |-> d, frame |-> f, w |-> w, h |-> h, clear |-> clear]

Ev(type, w, h, key, pressed) ==
    [type |-> type, w |-> w, h |-> h, key |-> key, pressed |-> pressed]

NoEvent == Ev("None", None, None, "", FALSE)

\* wgpu::SurfaceConfiguration as Graphics::new fills it in
NewConfig(w, h) ==
    [usage |-> "RENDER_ATTACHMENT",
     format |-> "formats[0]",
     width |-> w,
     height |-> h,
     desired_maximum_frame_latency |-> MaxFrameLatency,
     present_mode |-> "Fifo",
     alpha_mode |-> "alpha_modes[0]",
     view_formats |-> <<"formats[0]">>]

\* surface.configure(&device, &c)
Configure(c) == Op("configure", None, None, c.width, c.height, "")

\* window.request_redraw()
RequestRedraw == Op("request_redraw", None, None, None, None, "")

\* target.exit()
Exit == Op("exit", None, None, None, None, "")

\* ----------------------------------------------------- what the calls leave

HasOp(l, op) == \E i \in 1..Len(l) : l[i].op = op

\* The positions of the calls named op in l.
Positions(l, op) == {i \in 1..Len(l) : l[i].op = op}

\* .expect("Failed to acquire next swap chain texture") on Err: the panic ends
\* the closure, and the program, at the failed call.
Panicked(l) == l # << >> /\ l[Len(l)].op = "acquire_failed"

\* The state after a call of the closure that made the calls l: a panic ends
\* the program, target.exit() asks the event loop to stop, and nothing else
\* touches the loop.
StateAfter(l) ==
    IF Panicked(l) THEN "Aborted"
    ELSE IF HasOp(l, "exit") THEN "Exiting"
    ELSE state


\* --------------------------------------------------- the Redraw handler's calls

\* The image get_current_texture hands out after image f.
NextImage(f) == (f % NumImages) + 1

\* surface.get_current_texture(): Ok.  The texture has the size the surface
\* was last configured with.
Acquire(f) ==
    Op("acquire", None, f, surfaceConfig[1].width, surfaceConfig[1].height, "")

\* surface.get_current_texture(): Err (the surface is lost or outdated)
AcquireFailed == Op("acquire_failed", None, None, None, None, "")

\* renderable.render(&mut rpass, &self.queue) on drawable d, a Cube (the one
\* Renderable of the repository), and the calls Cube::render makes on the pass.
CubeRender(d, f) ==
    << Op("render", d, f, None, None, ""),
       Op("set_pipeline", d, f, None, None, ""),
       Op("set_bind_group", d, f, None, None, ""),
       Op("set_index_buffer", d, f, None, None, ""),
       Op("set_vertex_buffer", d, f, None, None, ""),
       Op("pop_debug_group", d, f, None, None, ""),
       Op("insert_debug_marker", d, f, None, None, ""),
       Op("draw_indexed", d, f, None, None, "") >>

\* RenderAll with the registry walked from its last entry to its first.
RECURSIVE RenderAll_Reversed(_, _)
RenderAll_Reversed(rs, f) ==
    IF rs = << >> THEN << >>
    ELSE RenderAll_Reversed(Tail(rs), f) \o CubeRender(Head(rs), f)

\* for renderable in self.renderables.iter_mut() { renderable.render(&mut rpass, &self.queue) }
RECURSIVE RenderAll(_, _)
RenderAll(rs, f) ==
    IF rs = << >> THEN << >>
    ELSE CubeRender(Head(rs), f) \o RenderAll(Tail(rs), f)

\* FrameOps without the request_redraw() that ends the arm.
FrameOps_NoRequestRedraw(f) ==
    << Acquire(f),
       Op("create_view", None, f, None, None, ""),
       Op("create_command_encoder", None, f, None, None, ""),
       Op("begin_render_pass", None, f, None, None, "BLACK"),
       Op("push_debug_group", None, f, None, None, "") >>
    \o RenderAll(renderables, f)
    \o << Op("end_render_pass", None, f, None, None, ""),
          Op("submit", None, f, None, None, ""),
          Op("present", None, f, None, None, "") >>

\* FrameOps with the frame dropped at the end of the arm, never presented.
FrameOps_NoPresent(f) ==
    << Acquire(f),
       Op("create_view", None, f, None, None, ""),
       Op("create_command_encoder", None, f, None, None, ""),
       Op("begin_render_pass", None, f, None, None, "BLACK"),
       Op("push_debug_group", None, f, None, None, "") >>
    \o RenderAll(renderables, f)
    \o << Op("end_render_pass", None, f, None, None, ""),
          Op("submit", None, f, None, None, ""),
          RequestRedraw >>

\* FrameOps with frame.present() moved before queue.submit().
FrameOps_PresentBeforeSubmit(f) ==
    << Acquire(f),
       Op("create_view", None, f, None, None, ""),
       Op("create_command_encoder", None, f, None, None, ""),
       Op("begin_render_pass", None, f, None, None, "BLACK"),
       Op("push_debug_group", None, f, None, None, "") >>
    \o RenderAll(renderables, f)
    \o << Op("end_render_pass", None, f, None, None, ""),
          Op("present", None, f, None, None, ""),
          Op("submit", None, f, None, None, ""),
          RequestRedraw >>

\* FrameOps with the arm left right after the acquisition when nothing is
\* registered.
FrameOps_SkipsEmptyRegistry(f) ==
    IF renderables = << >>
    THEN << Acquire(f), RequestRedraw >>
    ELSE << Acquire(f),
            Op("create_view", None, f, None, None, ""),
            Op("create_command_encoder", None, f, None, None, ""),
            Op("begin_render_pass", None, f, None, None, "BLACK"),
            Op("push_debug_group", None, f, None, None, "") >>
         \o RenderAll(renderables, f)
         \o << Op("end_render_pass", None, f, None, None, ""),
               Op("submit", None, f, None, None, ""),
               Op("present", None, f, None, None, ""),
               RequestRedraw >>

\* The calls of the RedrawRequested arm when acquisition succeeds with image f:
\* the pass is opened on the view of f, lives to the end of its block, and the
\* encoder is then finished and submitted, the frame presented and a redraw
\* requested.
FrameOps(f) ==
    << Acquire(f),
       Op("create_view", None, f, None, None, ""),
       Op("create_command_encoder", None, f, None, None, ""),
       Op("begin_render_pass", None, f, None, None, "BLACK"),
       Op("push_debug_group", None, f, None, None, "") >>
    \o RenderAll(renderables, f)
    \o << Op("end_render_pass", None, f, None, None, ""),
          Op("submit", None, f, None, None, ""),
          Op("present", None, f, None, None, ""),
          RequestRedraw >>

\* RedrawOps with a failed acquisition answered by a reconfigure and a retry
\* (which succeeds) instead of a panic.
RedrawOps_RetryOnce(ok) ==
    IF ok
    THEN FrameOps(NextImage(frame))
    ELSE << AcquireFailed, Configure(config) >> \o FrameOps(NextImage(frame))

\* RedrawOps with the redraw requested at the top of the arm, before the
\* acquisition.
RedrawOps_RequestsRedrawFirst(ok) ==
    IF ok
    THEN FrameOps(NextImage(frame))
    ELSE << RequestRedraw, AcquireFailed >>

\* The calls of the RedrawRequested arm: .expect() panics on Err, before
\* anything else is done.
RedrawOps(ok) ==
    IF ok THEN FrameOps(NextImage(frame)) ELSE << AcquireFailed >>

\* --------------------------------------------------- the Resized handler's calls

\* ResizedConfig with the configuration rebuilt on a resize, with another
\* present mode than Graphics::new chose.
ResizedConfig_RebuildsConfig(w, h) ==
    [config EXCEPT !.width = w, !.height = h, !.present_mode = "AutoVsync"]

\* config.width = size.width; config.height = size.height (the first arm of the
\* match, which takes every Resized event: the Resized arm of the inner match,
\* with .max(1) and the resize of the drawables, comes after it and is never
\* taken).
ResizedConfig(w, h) == [config EXCEPT !.width = w, !.height = h]

\* ResizedSurface without the configure: the surface keeps what it had.
ResizedSurface_NotConfigured(w, h) == surfaceConfig

\* self.surface.configure(&self.device, &self.config), after the assignments
ResizedSurface(w, h) == << ResizedConfig(w, h) >>

ResizedOps(w, h) == << Configure(ResizedConfig(w, h)), RequestRedraw >>

\* -------------------------------------------------------------------- Cube

RECURSIVE GCD(_, _)
GCD(a, b) == IF b = 0 THEN a ELSE GCD(b, a % b)

\* width as f32 / height as f32, as the pair <<n, d>> of the fraction in lowest
\* terms: two divisions give the same f32 exactly when they give the same pair.
\* A division by zero gives <<1, 0>> (infinity) or, for 0.0 / 0.0, <<0, 0>>
\* (NaN, with one bit pattern).
AspectRatio(w, h) ==
    IF w = 0 /\ h = 0 THEN << 0, 0 >>
    ELSE << w \div GCD(w, h), h \div GCD(w, h) >>

\* generate_matrix(aspect_ratio): the product of the projection built from the
\* arguments (FRAC_PI_4, aspect_ratio, 1.0, 10.0), in this order, and of the
\* fixed view.  Kept as its operands: the product is a function of them.
GenerateMatrix(aspect) ==
    [projection |-> << "FRAC_PI_4", aspect, "1.0", "10.0" >>,
     view |-> << "eye (1.5, -5.0, 3.0)", "target (0, 0, 0)", "up z" >>]

\* Cube::new(&graphics): the buffers made from create_vertices(), the uniform
\* buffer made from the matrix for the configuration's width / height, and the
\* number of indices.
CubeNew(c) ==
    [vertex_buf |-> "object.vertices",
     index_buf |-> "object.indices",
     uniform_buf |-> GenerateMatrix(AspectRatio(c.width, c.height)),
     index_count |-> "object.indices.len()"]

\* CubeAfterResize with the new ratio applied to the matrix the buffer holds,
\* instead of a matrix made afresh.
CubeAfterResize_ScalesOldMatrix(cube, w, h) ==
    [cube EXCEPT !.uniform_buf =
        GenerateMatrix(AspectRatio(cube.uniform_buf.projection[2][1] * w,
                                   cube.uniform_buf.projection[2][2] * h))]

\* Cube::resize(width, height, queue): the matrix for width / height is written
\* over the whole uniform buffer (offset 0, the 64 bytes it was made with).
CubeAfterResize(cube, w, h) ==
    [cube EXCEPT !.uniform_buf = GenerateMatrix(AspectRatio(w, h))]

\* ------------------------------------------------------------------ startup

\* Before Graphics::new there is no Graphics: config holds a placeholder that
\* nothing reads.
Init ==
    /\ state = "Start"
    /\ config = NewConfig(0, 0)
    /\ surfaceConfig = << >>
    /\ renderables = << >>
    /\ lastResize = [d \in DrawableIds |-> << >>]
    /\ redrawPending = FALSE
    /\ frame = 0
    /\ lastEvent = NoEvent
    /\ log = << >>
    /\ cubes = << >>
    /\ uniformWrites = << >>

\* Graphics::new: the surface, the adapter and the device are obtained in this
\* order and a failure of any of them ends the program (`?` and main's unwrap,
\* expect, expect); otherwise the configuration is built from the window's
\* inner size and applied to the surface.  A window that was just built has a
\* positive size.
New ==
    /\ state = "Start"
    /\ \E fail \in {"none", "surface", "adapter", "device"} :
       \E w \in 1..MaxDim, h \in 1..MaxDim :
          IF fail = "none"
          THEN /\ state' = "Initializing"
               /\ config' = NewConfig(w, h)
               /\ surfaceConfig' = << NewConfig(w, h) >>
               /\ log' = << Configure(NewConfig(w, h)) >>
          ELSE /\ state' = "StartupFailed"
               /\ log' = << Op("startup_failed", None, None, None, None, fail) >>
               /\ UNCHANGED <<config, surfaceConfig>>
    /\ UNCHANGED <<renderables, lastResize, redrawPending, frame, lastEvent>>
    /\ UNCHANGED cubeVars

\* graphics.renderables.push(Box::new(drawable)), before the loop starts.  The
\* registry holds Box<dyn Renderable>: what is inside a drawable is no state of
\* the controller, and the loop never reads or writes it.
Register ==
    /\ state = "Initializing"
    /\ Len(renderables) < MaxDrawables
    /\ \E d \in DrawableIds :
          /\ \A i \in 1..Len(renderables) : renderables[i] # d
          /\ renderables' = Append(renderables, d)
    /\ UNCHANGED cubeVars
    /\ UNCHANGED <<state, config, surfaceConfig, lastResize, redrawPending,
                   frame, lastEvent, log>>

\* Run with the result of Graphics::new not looked at: the loop is started
\* after a failed startup too.
Run_IgnoringStartupFailure ==
    /\ state \in {"Initializing", "StartupFailed"}
    /\ state' = "Running"
    /\ log' = << >>
    /\ UNCHANGED <<config, surfaceConfig, renderables, lastResize, redrawPending,
                   frame, lastEvent>>
    /\ UNCHANGED cubeVars

\* graphics.run(event_loop): the event loop starts calling the closure
Run ==
    /\ state = "Initializing"
    /\ state' = "Running"
    /\ log' = << >>
    /\ UNCHANGED <<config, surfaceConfig, renderables, lastResize, redrawPending,
                   frame, lastEvent>>
    /\ UNCHANGED cubeVars

\* ------------------------------------------------------------ the event loop

\* The event loop calls the closure while it runs, and also after target.exit()
\* until it returns: exit() only sets a flag that the loop reads once the events
\* of its current iteration are dispatched, and the closure never reads it.
Delivering == state \in {"Running", "Exiting"}

\* Event::WindowEvent { event: WindowEvent::Resized(size), .. }
Resized ==
    /\ Delivering
    /\ \E w \in Dims, h \in Dims :
          /\ lastEvent' = Ev("Resized", w, h, "", FALSE)
          /\ config' = ResizedConfig(w, h)
          /\ surfaceConfig' = ResizedSurface(w, h)
          /\ log' = ResizedOps(w, h)
    /\ redrawPending' = (redrawPending \/ HasOp(log', "request_redraw"))
    /\ state' = StateAfter(log')
    /\ UNCHANGED <<renderables, lastResize, frame>>
    /\ UNCHANGED cubeVars

\* WindowEvent::CloseRequested => target.exit()
CloseRequested ==
    /\ Delivering
    /\ lastEvent' = Ev("CloseRequested", None, None, "", FALSE)
    /\ log' = << Exit >>
    /\ state' = StateAfter(log')
    /\ UNCHANGED <<config, surfaceConfig, renderables, lastResize, redrawPending, frame>>
    /\ UNCHANGED cubeVars

\* The keyboard arm matches on logical_key alone: Key::Named(NamedKey::Escape),
\* with `..` for the rest of the KeyEvent (its state, pressed or released,
\* included).  Any other key falls to `_ => {}`.
KeyExits(key, pressed) == key = "Escape"

\* WindowEvent::KeyboardInput { event: KeyEvent { logical_key, state, .. }, .. }
KeyboardInput ==
    /\ Delivering
    /\ \E key \in {"Escape", "Other"}, pressed \in BOOLEAN :
          /\ lastEvent' = Ev("KeyboardInput", None, None, key, pressed)
          /\ log' = IF KeyExits(key, pressed) THEN << Exit >> ELSE << >>
    /\ state' = StateAfter(log')
    /\ UNCHANGED <<config, surfaceConfig, renderables, lastResize, redrawPending, frame>>
    /\ UNCHANGED cubeVars

\* WindowEvent::RedrawRequested.  The window system delivers it after
\* request_redraw(), and on its own when the window has to be repainted.
RedrawRequested ==
    /\ Delivering
    /\ \E ok \in BOOLEAN : log' = RedrawOps(ok)
    /\ frame' = IF HasOp(log', "acquire") THEN NextImage(frame) ELSE frame
    /\ redrawPending' = HasOp(log', "request_redraw")
    /\ state' = StateAfter(log')
    /\ lastEvent' = Ev("RedrawRequested", None, None, "", FALSE)
    /\ UNCHANGED <<config, surfaceConfig, renderables, lastResize>>
    /\ UNCHANGED cubeVars

\* OtherEvent with a redraw requested on every event that is not matched.
OtherEvent_RequestsRedraw ==
    /\ Delivering
    /\ \E type \in {"OtherWindowEvent", "NonWindowEvent"} :
          lastEvent' = Ev(type, None, None, "", FALSE)
    /\ log' = << RequestRedraw >>
    /\ redrawPending' = TRUE
    /\ UNCHANGED <<state, config, surfaceConfig, renderables, lastResize, frame>>
    /\ UNCHANGED cubeVars

\* Every other event: another window event (`_ => {}` of the inner match) or an
\* event that is no window event (`_ => {}` of the outer match).
OtherEvent ==
    /\ Delivering
    /\ \E type \in {"OtherWindowEvent", "NonWindowEvent"} :
          lastEvent' = Ev(type, None, None, "", FALSE)
    /\ log' = << >>
    /\ UNCHANGED <<state, config, surfaceConfig, renderables, lastResize,
                   redrawPending, frame>>
    /\ UNCHANGED cubeVars

\* EventLoop::run returns once exit() was called; run's .expect("") and main end.
LoopReturn ==
    /\ state = "Exiting"
    /\ state' = "Exited"
    /\ UNCHANGED <<config, surfaceConfig, renderables, lastResize, redrawPending,
                   frame, lastEvent, log>>
    /\ UNCHANGED cubeVars

Next ==
    \/ New
    \/ Register
    \/ Run
    \/ Resized
    \/ CloseRequested
    \/ KeyboardInput
    \/ RedrawRequested
    \/ OtherEvent
    \/ LoopReturn

Spec == Init /\ [][Next]_vars

\* At most this many resize calls in a row with the same arguments.
MaxRepeat == 3
\* At most this many Cubes are made.
MaxCubes == 1

\* Cube::new(&graphics), once Graphics::new has built the configuration.
CubeCreate ==
    /\ state = "Initializing"
    /\ Cardinality(DOMAIN cubes) < MaxCubes
    /\ cubes' = cubes @@ ((Cardinality(DOMAIN cubes) + 1) :> CubeNew(config))
    /\ uniformWrites' = uniformWrites @@ ((Cardinality(DOMAIN cubes) + 1) :> << >>)
    /\ log' = << >>
    /\ UNCHANGED <<state, config, surfaceConfig, renderables, lastResize,
                   redrawPending, frame, lastEvent>>

\* A call of Cube::resize on a Cube.  Graphics::run never makes this call (see
\* ResizedConfig): the method is applied here on its own, to every width and
\* height, as often as MaxRepeat allows with the same ones.
CubeResize ==
    /\ state = "Initializing"
    /\ \E d \in DOMAIN cubes, w \in Dims, h \in Dims :
          /\ lastResize[d] = << w, h >> => Len(uniformWrites[d]) < MaxRepeat
          /\ cubes' = [cubes EXCEPT ![d] = CubeAfterResize(@, w, h)]
          /\ lastResize' = [lastResize EXCEPT ![d] = << w, h >>]
          /\ uniformWrites' =
                [uniformWrites EXCEPT ![d] =
                    IF lastResize[d] = << w, h >>
                    THEN Append(@, cubes'[d].uniform_buf)
                    ELSE << cubes'[d].uniform_buf >>]
          /\ log' = << Op("resize", d, None, w, h, "") >>
    /\ UNCHANGED <<state, config, surfaceConfig, renderables, redrawPending,
                   frame, lastEvent>>

CubeNext ==
    \/ New
    \/ CubeCreate
    \/ CubeResize

\* Graphics::new, Cube::new and then Cube::resize applied to the Cubes.
CubeSpec == Init /\ [][CubeNext]_vars

\* A redraw that was requested is delivered.
LiveSpec == Spec /\ WF_vars(redrawPending /\ RedrawRequested)

TypeOK ==
    /\ state \in States
    /\ config.width \in Dims /\ config.height \in Dims
    /\ Len(surfaceConfig) <= 1
    /\ Len(renderables) <= MaxDrawables
    /\ redrawPending \in BOOLEAN
    /\ frame \in 0..NumImages


\* ================================================================== claims

Renders(l) == SelectSeq(l, LAMBDA o : o.op = "render")

\* The closure was last called with a RedrawRequested event and returned.
RedrawHandled == lastEvent.type = "RedrawRequested" /\ ~Panicked(log)

\* The closure was last called with a Resized event.
ResizedHandled == lastEvent.type = "Resized"

\* C1: handling one RedrawRequested event calls render on each registered
\* drawable exactly once, in registration order, for any number of drawables,
\* and every one of these calls is made inside the one render pass opened for
\* that frame.
C1_RenderEachOnceInOrder ==
    RedrawHandled =>
        /\ Cardinality(Positions(log, "begin_render_pass")) = 1
        /\ Cardinality(Positions(log, "end_render_pass")) = 1
        /\ Len(Renders(log)) = Len(renderables)
        /\ \A i \in 1..Len(renderables) : Renders(log)[i].d = renderables[i]
        /\ \A i \in Positions(log, "render") :
              /\ \A b \in Positions(log, "begin_render_pass") :
                    b < i /\ log[i].frame = log[b].frame
              /\ \A e \in Positions(log, "end_render_pass") : i < e

\* A frame was drawn with two drawables registered in the order 2, 1.
C1_Witness ==
    /\ RedrawHandled
    /\ renderables = << 2, 1 >>
    /\ Len(Renders(log)) = 2

\* C2 (as stated): after a Resized(w, h) event with w, h >= 1 the configuration
\* holds (w, h) and resize(w, h) was called on every registered drawable.
C2_ResizeReachesEveryDrawable ==
    (ResizedHandled /\ lastEvent.w >= 1 /\ lastEvent.h >= 1) =>
        /\ config.width = lastEvent.w
        /\ config.height = lastEvent.h
        /\ \A i \in 1..Len(renderables) :
              lastResize[renderables[i]] = << lastEvent.w, lastEvent.h >>

\* C3 (as stated): from Graphics::new on, through any Resized events, the
\* configuration has width >= 1 and height >= 1 and no configuration with a
\* zero dimension is given to configure.
C3_ConfigNeverZero ==
    state \notin {"Start", "StartupFailed"} =>
        /\ config.width >= 1
        /\ config.height >= 1
        /\ \A i \in Positions(log, "configure") : log[i].w >= 1 /\ log[i].h >= 1


ExitRequested == state \in {"Exiting", "Exited"}

\* The calls that draw a frame.
FrameCalls ==
    {"acquire", "acquire_failed", "create_view", "create_command_encoder",
     "begin_render_pass", "push_debug_group", "render", "set_pipeline",
     "set_bind_group", "set_index_buffer", "set_vertex_buffer",
     "pop_debug_group", "insert_debug_marker", "draw_indexed",
     "end_render_pass", "submit", "present"}

\* C4 (as stated): a CloseRequested event and an Escape key press each move the
\* controller to Exiting, and once Exiting is entered no RedrawRequested event
\* is processed: no frame is acquired, rendered, submitted or presented.
C4_NoRedrawAfterExit ==
    /\ (lastEvent.type = "CloseRequested"
            \/ (lastEvent.type = "KeyboardInput" /\ lastEvent.key = "Escape"
                    /\ lastEvent.pressed))
          => ExitRequested
    /\ ExitRequested =>
          /\ lastEvent.type # "RedrawRequested"
          /\ \A i \in 1..Len(log) : log[i].op \notin FrameCalls

\* C5 (as stated): once a CloseRequested event was handled, no later event
\* changes the controller state or the configuration, or causes a configure, a
\* drawable resize or a redraw request.  Stated for the step that follows the
\* handling of CloseRequested: no history of the run is needed to know the
\* event was handled.
C5_ExitingIsTerminal ==
    [][(ExitRequested /\ lastEvent.type = "CloseRequested") =>
          /\ ExitRequested'
          /\ config' = config
          /\ surfaceConfig' = surfaceConfig
          /\ lastResize' = lastResize
          /\ redrawPending' = redrawPending
          /\ (log' # log =>
                \A i \in 1..Len(log') :
                    log'[i].op \notin {"configure", "resize", "request_redraw"})
      ]_vars

\* The images acquired by the calls l and not presented by them.
Outstanding(l) ==
    {f \in 1..NumImages :
        /\ \E i \in Positions(l, "acquire") : l[i].frame = f
        /\ ~ \E j \in Positions(l, "present") : l[j].frame = f}

\* C6: every successful acquisition is followed by exactly one present of that
\* frame within the same call of the closure: no frame is outstanding between
\* two events, none is presented twice, and nothing is rendered, submitted or
\* otherwise written to a frame after its present.
C6_AcquirePresentPaired ==
    /\ Outstanding(log) = {}
    /\ Cardinality(Positions(log, "acquire")) <= 1
    /\ \A a \in Positions(log, "acquire") :
          /\ Cardinality({p \in Positions(log, "present") :
                             log[p].frame = log[a].frame}) = 1
          /\ \A p \in Positions(log, "present") :
                /\ a < p
                /\ log[p].frame = log[a].frame
                /\ \A k \in (p + 1)..Len(log) :
                      log[k].op \notin FrameCalls /\ log[k].frame = None
    /\ \A p \in Positions(log, "present") : Positions(log, "acquire") # {}

\* A frame with a drawable in it was acquired and presented.
C6_Witness ==
    /\ RedrawHandled
    /\ Len(Renders(log)) >= 1
    /\ \E a \in Positions(log, "acquire"), p \in Positions(log, "present") :
          a < p /\ log[a].frame = log[p].frame

\* The one position of the call named op in l (0 when there is none or several).
Pos(l, op) ==
    IF Cardinality(Positions(l, op)) = 1
    THEN CHOOSE i \in Positions(l, op) : TRUE
    ELSE 0

\* C7: within one handled RedrawRequested event these happen once each and in
\* this order: the frame is acquired, one encoder is opened and in it one render
\* pass that clears to black, every render call is made while the pass is open,
\* the pass is closed, the encoder is submitted, the frame is presented, a
\* redraw is requested.
C7_FrameProtocolOrder ==
    RedrawHandled =>
        /\ \A op \in {"acquire", "create_command_encoder", "begin_render_pass",
                      "end_render_pass", "submit", "present", "request_redraw"} :
              Pos(log, op) >= 1
        /\ Pos(log, "acquire") < Pos(log, "create_command_encoder")
        /\ Pos(log, "create_command_encoder") < Pos(log, "begin_render_pass")
        /\ log[Pos(log, "begin_render_pass")].clear = "BLACK"
        /\ \A r \in Positions(log, "render") :
              Pos(log, "begin_render_pass") < r /\ r < Pos(log, "end_render_pass")
        /\ Pos(log, "begin_render_pass") < Pos(log, "end_render_pass")
        /\ Pos(log, "end_render_pass") < Pos(log, "submit")
        /\ Pos(log, "submit") < Pos(log, "present")
        /\ Pos(log, "present") < Pos(log, "request_redraw")
        /\ Pos(log, "request_redraw") = Len(log)

\* A frame was drawn with every drawable's render call between the opening and
\* the closing of the pass.
C7_Witness ==
    /\ RedrawHandled
    /\ Len(renderables) = MaxDrawables
    /\ Cardinality(Positions(log, "render")) = MaxDrawables
    /\ Pos(log, "submit") >= 1


\* C8: while Running, every handled RedrawRequested event and every handled
\* Resized event ends with a redraw request; a pending request is not lost while
\* the loop runs; and so, while no close or escape event arrives and
\* acquisition does not fail, a pending redraw request always leads to a new
\* frame: frames are presented again and again.
C8_RedrawAlwaysReissued ==
    /\ []((state = "Running" /\ (RedrawHandled \/ ResizedHandled)) =>
             /\ log # << >>
             /\ log[Len(log)] = RequestRedraw
             /\ redrawPending)
    /\ [][(state = "Running" /\ redrawPending /\ state' = "Running")
             => redrawPending']_vars
    /\ \A f \in 0..NumImages :
          (state = "Running" /\ redrawPending /\ frame = f)
             ~> (state # "Running" \/ (frame # f /\ HasOp(log, "present")))

\* Frames were presented one after another, through all the images of the
\* surface, and the next redraw is requested.
C8_Witness ==
    /\ state = "Running"
    /\ RedrawHandled
    /\ redrawPending
    /\ frame = NumImages
    /\ HasOp(log, "present")

\* C9: the surface is configured at startup and after every resize, before the
\* next acquisition: every frame is acquired from a surface whose last applied
\* configuration is the current configuration, and nothing is acquired before
\* the first configure.
C9_ConfiguredBeforeAcquire ==
    /\ state \notin {"Start", "StartupFailed"} => surfaceConfig = << config >>
    /\ surfaceConfig = << >> => (frame = 0 /\ ~HasOp(log, "acquire"))
    /\ \A a \in Positions(log, "acquire") :
          log[a].w = config.width /\ log[a].h = config.height

\* A frame was acquired from the configured surface, at the size of the
\* configuration.
C9_Witness ==
    /\ RedrawHandled
    /\ surfaceConfig = << config >>
    /\ \E a \in Positions(log, "acquire") :
          log[a].w = config.width /\ log[a].h = config.height /\ log[a].w # log[a].h

\* C10 (as stated): a failed acquisition is answered by a reconfigure and a
\* retry of the acquisition, and the loop ends only if the retry fails too.
C10_RecoversByRetry ==
    Positions(log, "acquire_failed") # {} =>
        LET i == CHOOSE x \in Positions(log, "acquire_failed") :
                    \A y \in Positions(log, "acquire_failed") : x <= y
        IN  /\ \E j \in Positions(log, "configure") :
                  /\ i < j
                  /\ \E k \in Positions(log, "acquire") \cup Positions(log, "acquire_failed") :
                        j < k
            /\ state = "Aborted" =>
                  Cardinality(Positions(log, "acquire_failed")) >= 2

\* C10 (amended): the first failed acquisition is fatal: the closure panics at
\* that call, having made no other call (no reconfigure, no retry), and the
\* program ends there.
C10_FirstFailureIsFatal ==
    /\ Positions(log, "acquire_failed") # {} =>
          /\ log = << AcquireFailed >>
          /\ state = "Aborted"
          /\ lastEvent.type = "RedrawRequested"
    /\ state = "Aborted" => log = << AcquireFailed >>

\* An acquisition failed after frames had been drawn.
C10_Witness ==
    /\ state = "Aborted"
    /\ frame >= 1
    /\ HasOp(log, "acquire_failed")

\* C11: a failed acquisition aborts with no partial rendering: for the failed
\* frame no pass is opened, no render is called, nothing is submitted or
\* presented and no redraw is requested, and the loop handles no later event.
C11_AbortLeavesNoPartialFrame ==
    /\ [](state = "Aborted" =>
             /\ \A i \in 1..Len(log) :
                   log[i].op \notin (FrameCalls \ {"acquire_failed"})
                                       \cup {"request_redraw", "configure"}
             /\ Outstanding(log) = {}
             /\ ~redrawPending)
    /\ [][state = "Aborted" => UNCHANGED vars]_vars

\* An acquisition failed with drawables registered and a redraw that had been
\* requested.
C11_Witness ==
    /\ state = "Aborted"
    /\ Len(renderables) = MaxDrawables
    /\ lastEvent.type = "RedrawRequested"
    /\ ~redrawPending

\* C12: a startup failure (no surface, no adapter, no device) ends the program
\* before the loop: the controller never reaches Running, the surface is never
\* configured, no event is handled and no frame is acquired or presented.
C12_StartupFailureBeforeLoop ==
    /\ [](state = "StartupFailed" =>
             /\ surfaceConfig = << >>
             /\ lastEvent = NoEvent
             /\ frame = 0
             /\ \A i \in 1..Len(log) :
                   log[i].op \notin FrameCalls \cup {"configure", "request_redraw"})
    /\ [][state = "StartupFailed" => UNCHANGED vars]_vars

\* No adapter was found.
C12_Witness ==
    /\ state = "StartupFailed"
    /\ log = << Op("startup_failed", None, None, None, None, "adapter") >>

\* The debug groups open after the first k calls of l: pushed and not popped.
Depth(l, k) ==
    Cardinality({i \in 1..k : l[i].op = "push_debug_group"})
        - Cardinality({i \in 1..k : l[i].op = "pop_debug_group"})

C19_DebugGroupsBalanced ==
    RedrawHandled =>
        /\ \A k \in 1..Len(log) : Depth(log, k) >= 0
        /\ \A e \in Positions(log, "end_render_pass") : Depth(log, e) = 0

\* C15 (as stated): a keyboard event ends the loop only when it is a press of
\* Escape: a release of Escape, and a press or release of any other key, handled
\* while Running, leaves the controller Running, changes nothing and makes no
\* call.
C15_OnlyEscapePressExits ==
    [][(/\ state = "Running"
        /\ lastEvent'.type = "KeyboardInput"
        /\ ~(lastEvent'.key = "Escape" /\ lastEvent'.pressed))
          => /\ state' = "Running"
             /\ log' = << >>
             /\ UNCHANGED <<config, surfaceConfig, renderables, lastResize,
                            redrawPending, frame>>
      ]_vars

OtherEventTypes == {"OtherWindowEvent", "NonWindowEvent"}

\* C16: an event that is no Resized, CloseRequested, Escape keyboard input or
\* RedrawRequested event is ignored, whether the loop is Running or Exiting:
\* handling it changes neither the controller state nor the configuration nor
\* the registry, and makes no call at all.  (A step into Exited is the event
\* loop returning, not the handling of an event.)
C16_OtherEventsIgnored ==
    [][(Delivering /\ lastEvent'.type \in OtherEventTypes /\ state' # "Exited")
          => /\ state' = state
             /\ log' = << >>
             /\ UNCHANGED <<config, surfaceConfig, renderables, lastResize,
                            redrawPending, frame>>
      ]_vars

\* An unmatched event was handled after frames had been drawn and exit had been
\* asked for, with a redraw still requested.
C16_Witness ==
    /\ lastEvent.type = "NonWindowEvent"
    /\ state = "Exiting"
    /\ redrawPending
    /\ frame >= 1
    /\ log = << >>

\* C17: while the loop runs the registry never changes, and the configuration
\* is changed only by the handling of a Resized event and only in its width and
\* height: format, present mode, alpha mode and maximum frame latency keep the
\* values Graphics::new gave them.
C17_RegistryAndConfigOwnership ==
    /\ [](state \notin {"Start", "StartupFailed"} =>
             /\ config.format = "formats[0]"
             /\ config.present_mode = "Fifo"
             /\ config.alpha_mode = "alpha_modes[0]"
             /\ config.desired_maximum_frame_latency = MaxFrameLatency
             /\ config.usage = "RENDER_ATTACHMENT"
             /\ config.view_formats = << "formats[0]" >>)
    /\ [][Delivering =>
             /\ renderables' = renderables
             /\ (config' # config =>
                   /\ lastEvent'.type = "Resized"
                   /\ HasOp(log', "configure")
                   /\ config' = [config EXCEPT !.width = config'.width,
                                               !.height = config'.height])
       ]_vars

\* A Resized event was handled with drawables registered.
C17_Witness ==
    /\ state = "Running"
    /\ ResizedHandled
    /\ Len(renderables) = MaxDrawables
    /\ config.width = MaxDim
    /\ config.height = 1

\* C14 (as stated): the handling of a Resized event calls resize on the
\* drawables, and every such call passes a width and a height that are >= 1
\* and are the width and height the same handling stored in the configuration,
\* also when the event reports a zero width or height.
C14_ResizeGetsConfiguredSize ==
    /\ \A i \in Positions(log, "resize") :
          /\ log[i].w >= 1 /\ log[i].h >= 1
          /\ log[i].w = config.width /\ log[i].h = config.height
    /\ ResizedHandled =>
          \A j \in 1..Len(renderables) :
              \E i \in Positions(log, "resize") : log[i].d = renderables[j]

\* C18: Cube::resize is idempotent: for w, h >= 1, after two (or more) calls in
\* a row with the same (w, h) the uniform buffer holds what it held after the
\* first of them; and resize leaves the vertex buffer, the index buffer and the
\* index count as Cube::new made them.
C18_CubeResizeIdempotent ==
    \A d \in DOMAIN cubes :
        /\ (lastResize[d] # << >> /\ lastResize[d][1] >= 1 /\ lastResize[d][2] >= 1) =>
              \A i \in 1..Len(uniformWrites[d]) :
                  /\ uniformWrites[d][i] = uniformWrites[d][1]
                  /\ uniformWrites[d][i] = cubes[d].uniform_buf
        /\ cubes[d].vertex_buf = CubeNew(config).vertex_buf
        /\ cubes[d].index_buf = CubeNew(config).index_buf
        /\ cubes[d].index_count = CubeNew(config).index_count

\* A Cube was resized twice in a row to a size of another ratio than the one
\* it was made with.
C18_Witness ==
    \E d \in DOMAIN cubes :
        /\ lastResize[d] = << MaxDim, 1 >>
        /\ Len(uniformWrites[d]) = MaxRepeat
        /\ cubes[d].uniform_buf # CubeNew(config).uniform_buf

====
